---- MODULE Spec2Model ----
(***************************************************************************)
(* Model of egui_inspect's binding generator.                              *)
(*                                                                         *)
(*   src/src/main.rs  BindgenContext: the classifier that decides which    *)
(*                    enums and structs of the rustdoc index are Copy      *)
(*                    ("trivially transferable") and records them in       *)
(*                    known_types.                                         *)
(*   src/src/ag.rs    the IR items and their C# / Rust renderings, and the *)
(*                    indent helper.                                       *)
(*                                                                         *)
(* Text is a sequence of tokens.  Every whitespace character (" ", "\n",   *)
(* "\t") is a token of its own; a token that is not whitespace stands for  *)
(* a non-empty run of non-whitespace characters, so trim_end and           *)
(* replace("\n", ..) act on tokens exactly as they act on characters.      *)
(* Names that are case-converted are sequences of single characters.       *)
(* Option<T> is a sequence of length at most one: <<>> is None, <<v>> is   *)
(* Some(v).                                                                *)
(***************************************************************************)
EXTENDS Integers, Sequences, FiniteSets, TLC

VARIABLES
    krate,            \* BindgenContext.krate: the declaration index (read-only input)
    known_types,      \* BindgenContext.known_types: name -> KnownType
    remaining_items,  \* BindgenContext.remaining_items: the worklist
    remaining,        \* the local `remaining` of generate_primitive_structs
    result,           \* BindgenContext.result: generated text
    total_items,      \* BindgenContext.total_items
    classified,       \* ids for which known_types.insert ran, in order
    passes,           \* iterations of the loop of generate_primitive_structs
    pc,               \* position of main(): start, generate, structs, loop, done, aborted
    run,              \* how many times main() has been started
    prev,             \* outcome of the previous run of main() on the same input
    item,             \* a Struct IR item handed to the renderer
    cs_out,           \* Option: DisplayCs(item) text
    rs_out,           \* Option: DisplayRs(item) text
    blocks,           \* a pair of text blocks handed to indent
    indented          \* Option: indent of the first, the second and the concatenation

vars == <<krate, known_types, remaining_items, remaining, result, total_items,
          classified, passes, pc, run, prev, item, cs_out, rs_out, blocks, indented>>

classifierVars == <<krate, known_types, remaining_items, remaining, result,
                    total_items, classified, passes, pc, run, prev>>
renderVars == <<item, cs_out, rs_out>>
indentVars == <<blocks, indented>>

(***************************************************************************)
(* Bounds                                                                  *)
(***************************************************************************)
MaxDecls == 2      \* declarations in the index
MaxRuns == 2       \* runs of main() on the same input
MaxFields == 2     \* fields of a rendered Struct item
MaxBlockLen == 3   \* tokens in a block handed to indent

(***************************************************************************)
(* Text helpers                                                            *)
(***************************************************************************)
None == <<>>
Some(v) == <<v>>

\* str::repeat
RECURSIVE Repeat(_, _)
Repeat(tok, n) == IF n = 0 THEN <<>> ELSE <<tok>> \o Repeat(tok, n - 1)

\* char::is_whitespace, on the characters the model uses
IsWhitespace(tok) == tok \in {" ", "\n", "\t"}

\* str::trim_end
TrimEnd(s) ==
    LET kept == {i \in 1..Len(s) : ~IsWhitespace(s[i])}
    IN  IF kept = {} THEN <<>>
        ELSE SubSeq(s, 1, CHOOSE i \in kept : \A j \in kept : j <= i)

\* concatenation of a sequence of texts
RECURSIVE Concat(_)
Concat(ss) ==
    IF Len(ss) = 0 THEN <<>>
    ELSE IF Len(ss) = 1 THEN ss[1]
    ELSE LET mid == Len(ss) \div 2
         IN  Concat(SubSeq(ss, 1, mid)) \o Concat(SubSeq(ss, mid + 1, Len(ss)))

\* str::replace("\n", to)
ReplaceNewline(s, to) ==
    Concat([i \in 1..Len(s) |-> IF s[i] = "\n" THEN to ELSE <<s[i]>>])

\* the lines of a text: the pieces that "\n" tokens close, and a last piece
\* without "\n" if it is not empty
Lines(s) ==
    LET breaks == {i \in 1..Len(s) : s[i] = "\n"}
        starts == {a \in {1} \cup {i + 1 : i \in breaks} : a <= Len(s)}
        start(k) == CHOOSE a \in starts : Cardinality({b \in starts : b < a}) = k - 1
        end(a) == IF \E i \in breaks : i >= a
                  THEN (CHOOSE i \in breaks : i >= a /\ \A j \in breaks : j >= a => i <= j) - 1
                  ELSE Len(s)
    IN  [k \in 1..Cardinality(starts) |-> SubSeq(s, start(k), end(start(k)))]

\* all sequences over S of length at most n
RECURSIVE SeqsUpTo(_, _)
SeqsUpTo(S, n) ==
    IF n = 0 THEN {<<>>}
    ELSE LET shorter == SeqsUpTo(S, n - 1)
         IN  shorter \cup {Append(q, x) : q \in {p \in shorter : Len(p) = n - 1}, x \in S}

\* all orderings of the elements of the finite set S
RECURSIVE Orderings(_)
Orderings(S) ==
    IF S = {} THEN {<<>>}
    ELSE UNION {{<<x>> \o q : q \in Orderings(S \ {x})} : x \in S}

(***************************************************************************)
(* The declaration index (rustdoc_types::Crate.index)                      *)
(*                                                                         *)
(* krate is the sequence of top-level items in the order of the input      *)
(* document.  The Id of the i-th item is <<i>>; the Id of its j-th field   *)
(* or variant is <<i, j>>.                                                 *)
(***************************************************************************)
FieldItem(name, ty) == [name |-> name, ty |-> ty]
VariantItem(name, docs, vkind, discriminant) ==
    [name |-> name, docs |-> docs, vkind |-> vkind, discriminant |-> discriminant]
Decl(kind, name, docs, skind, fields, stripped, variants) ==
    [kind |-> kind, name |-> name, docs |-> docs, skind |-> skind,
     fields |-> fields, stripped |-> stripped, variants |-> variants]
PlainStruct(name, fields, stripped) ==
    Decl("Struct", name, None, "Plain", fields, stripped, <<>>)
UnitStruct(name) == Decl("Struct", name, None, "Unit", <<>>, FALSE, <<>>)
TupleStruct(name) == Decl("Struct", name, None, "Tuple", <<>>, FALSE, <<>>)
EnumDecl(name, docs, variants) == Decl("Enum", name, docs, "", <<>>, FALSE, variants)
OtherDecl(kind, name) == Decl(kind, name, None, "", <<>>, FALSE, <<>>)

PlainVariant == VariantItem(Some("P"), None, "Plain", None)
DiscriminantVariant == VariantItem(Some("Q"), Some(<<"second", "\n", "line">>), "Plain", Some("5"))
TupleVariant == VariantItem(Some("R"), None, "Tuple", None)
UnnamedVariant == VariantItem(None, Some(<<"lost">>), "Plain", None)

\* The declarations an index is drawn from.
DeclPool == {
    PlainStruct(Some("Point"), <<FieldItem(Some("x"), "f32"), FieldItem(Some("y"), "f32")>>, FALSE),
    PlainStruct(Some("A"), <<>>, FALSE),
    PlainStruct(Some("B"), <<FieldItem(Some("a"), "A")>>, FALSE),
    PlainStruct(Some("C"), <<FieldItem(Some("A"), "String")>>, FALSE),
    PlainStruct(Some("R"), <<FieldItem(Some("next"), "R")>>, FALSE),
    PlainStruct(Some("S"), <<>>, TRUE),
    PlainStruct(Some("f32"), <<>>, FALSE),
    PlainStruct(None, <<>>, FALSE),
    UnitStruct(Some("U")),
    TupleStruct(Some("T")),
    EnumDecl(Some("E"), Some(<<"colours">>), <<PlainVariant, DiscriminantVariant>>),
    EnumDecl(Some("D"), None, <<PlainVariant, TupleVariant>>),
    EnumDecl(Some("f32"), None, <<PlainVariant>>),
    EnumDecl(Some("V"), None, <<PlainVariant, UnnamedVariant>>),
    EnumDecl(None, None, <<PlainVariant>>),
    OtherDecl("Function", Some("g")),
    OtherDecl("Module", Some("m"))
}

Crates == SeqsUpTo(DeclPool, MaxDecls)

\* krate.index[&id]
ItemAt(id) ==
    IF Len(id) = 1 THEN krate[id[1]]
    ELSE IF krate[id[1]].kind = "Struct" THEN krate[id[1]].fields[id[2]]
    ELSE krate[id[1]].variants[id[2]]

\* the Vec<Id> a struct or an enum holds for its fields / variants
FieldIds(id) == [j \in 1..Len(ItemAt(id).fields) |-> <<id[1], j>>]
VariantIds(id) == [j \in 1..Len(ItemAt(id).variants) |-> <<id[1], j>>]

\* the ids of a sequence of ids, as a set
Range(f) == {f[i] : i \in DOMAIN f}

(***************************************************************************)
(* BindgenContext (src/src/main.rs)                                        *)
(***************************************************************************)
KnownType(cs_name, kind) == [cs_name |-> cs_name, kind |-> kind]

default_known_types ==
    ("i32" :> KnownType("int", "Copy")) @@
    ("u32" :> KnownType("uint", "Copy")) @@
    ("f32" :> KnownType("float", "Copy")) @@
    ("f64" :> KnownType("double", "Copy")) @@
    ("egui::Pos2" :> KnownType("IVec2", "Copy")) @@
    ("egui::Vec2" :> KnownType("IVec2", "Copy"))

\* HashMap::insert: the new value replaces an old one under the same key
Insert(kt, key, value) == (key :> value) @@ kt

item_relevant(x) ==
    x.kind \in {"Union", "Struct", "Enum", "Function", "TypeAlias", "Constant",
                "Static", "ExternType", "Macro", "ProcMacro"}

rust_name(id) == IF ItemAt(id).name = None THEN "" ELSE ItemAt(id).name[1]

write_summary_doc(data, indent_by, res) ==
    IF data = None THEN res
    ELSE LET indent_str == Repeat(" ", indent_by)
             edited_label == ReplaceNewline(data[1], <<"\n">> \o indent_str \o <<"///", " ">>)
         IN  res \o indent_str \o <<"///", " ", "<summary>", "\n">>
                 \o indent_str \o <<"///", " ">> \o edited_label \o <<"\n">>
                 \o indent_str \o <<"///", " ", "</summary>", "\n">>

\* a check that stops after the first variant
is_primitive_enum_first_variant_only(id) ==
    Len(VariantIds(id)) = 0 \/ ItemAt(VariantIds(id)[1]).vkind = "Plain"

is_primitive_enum(id) ==
    \A j \in 1..Len(VariantIds(id)) : ItemAt(VariantIds(id)[j]).vkind = "Plain"

\* the loop over the variants in generate_primitive_enum, from variant j on;
\* expect() on a missing variant name panics with the text written so far
RECURSIVE WriteVariants(_, _, _)
WriteVariants(res, id, j) ==
    IF j > Len(VariantIds(id)) THEN [panicked |-> FALSE, result |-> res]
    ELSE LET var == ItemAt(VariantIds(id)[j])
             documented == write_summary_doc(var.docs, 4, res)
         IN  IF var.name = None THEN [panicked |-> TRUE, result |-> documented]
             ELSE IF var.discriminant # None
                  THEN WriteVariants(documented \o Repeat(" ", 4)
                           \o <<var.name[1], " ", "=", " ", var.discriminant[1], ",", "\n">>,
                           id, j + 1)
                  ELSE WriteVariants(documented \o Repeat(" ", 4)
                           \o <<var.name[1], ",", "\n">>, id, j + 1)

generate_primitive_enum(kt, res, id) ==
    IF is_primitive_enum(id)
    THEN LET enum_ty == ItemAt(id)
         IN  IF enum_ty.name = None
             THEN [ret |-> FALSE, panicked |-> TRUE, known_types |-> kt, result |-> res]
             ELSE LET cs_name == enum_ty.name[1]
                      head == write_summary_doc(enum_ty.docs, 0, res)
                                  \o <<"public", " ", "enum", " ", cs_name, "\n", "{", "\n">>
                      body == WriteVariants(head, id, 1)
                  IN  IF body.panicked
                      THEN [ret |-> FALSE, panicked |-> TRUE, known_types |-> kt,
                            result |-> body.result]
                      ELSE [ret |-> TRUE, panicked |-> FALSE,
                            known_types |-> Insert(kt, rust_name(id), KnownType(cs_name, "Copy")),
                            result |-> body.result \o <<"}", "\n", "\n">>]
    ELSE [ret |-> FALSE, panicked |-> FALSE, known_types |-> kt, result |-> res]

\* remaining.retain(..) of generate_primitive_enums over the ids of list, in order
RECURSIVE RetainEnums(_, _, _, _)
RetainEnums(list, kt, res, cls) ==
    IF list = <<>>
    THEN [remaining |-> <<>>, known_types |-> kt, result |-> res, classified |-> cls,
          panicked |-> FALSE]
    ELSE LET x == Head(list)
         IN  IF ItemAt(x).kind = "Enum"
             THEN LET g == generate_primitive_enum(kt, res, x)
                  IN  IF g.panicked
                      THEN [remaining |-> list, known_types |-> g.known_types,
                            result |-> g.result, classified |-> cls, panicked |-> TRUE]
                      ELSE LET rest == RetainEnums(Tail(list), g.known_types, g.result,
                                                   IF g.ret THEN Append(cls, x) ELSE cls)
                           IN  [rest EXCEPT !.remaining =
                                    IF g.ret THEN @ ELSE <<x>> \o @]
             ELSE LET rest == RetainEnums(Tail(list), kt, res, cls)
                  IN  [rest EXCEPT !.remaining = <<x>> \o @]

\* fields.iter().any(..) in place of all(..)
FieldsAnyCopy(kt, id) ==
    \E j \in 1..Len(FieldIds(id)) :
        LET key == rust_name(FieldIds(id)[j])
        IN  key \in DOMAIN kt /\ kt[key].kind = "Copy"

\* fields.iter().all(..) of generate_primitive_struct
FieldsAllCopy(kt, id) ==
    \A j \in 1..Len(FieldIds(id)) :
        LET key == rust_name(FieldIds(id)[j])
        IN  key \in DOMAIN kt /\ kt[key].kind = "Copy"

\* the classification without the has_stripped_fields test
generate_primitive_struct_ignoring_stripped(kt, id) ==
    LET x == ItemAt(id)
    IN  IF x.skind = "Plain" /\ FieldsAllCopy(kt, id)
        THEN [ret |-> TRUE,
              known_types |-> Insert(kt, rust_name(id), KnownType(rust_name(id), "Copy"))]
        ELSE [ret |-> FALSE, known_types |-> kt]

generate_primitive_struct(kt, id) ==
    LET x == ItemAt(id)
    IN  IF x.skind = "Plain"
        THEN IF x.stripped
             THEN [ret |-> FALSE, known_types |-> kt]
             ELSE IF FieldsAllCopy(kt, id)
                  THEN [ret |-> TRUE,
                        known_types |-> Insert(kt, rust_name(id),
                                               KnownType(rust_name(id), "Copy"))]
                  ELSE [ret |-> FALSE, known_types |-> kt]
        ELSE [ret |-> FALSE, known_types |-> kt]

\* remaining.retain(..) of one iteration of the loop of generate_primitive_structs
RECURSIVE RetainStructs(_, _, _)
RetainStructs(list, kt, cls) ==
    IF list = <<>>
    THEN [remaining |-> <<>>, known_types |-> kt, classified |-> cls]
    ELSE LET x == Head(list)
         IN  IF ItemAt(x).kind = "Struct"
             THEN LET g == generate_primitive_struct(kt, x)
                      rest == RetainStructs(Tail(list), g.known_types,
                                            IF g.ret THEN Append(cls, x) ELSE cls)
                  IN  [rest EXCEPT !.remaining = IF g.ret THEN @ ELSE <<x>> \o @]
             ELSE LET rest == RetainStructs(Tail(list), kt, cls)
                  IN  [rest EXCEPT !.remaining = <<x>> \o @]

\* an unconditional break: the loop body runs once
LoopExit_unconditional(len, rem) == TRUE

\* the break test inverted
LoopExit_inverted(len, rem) == len # Len(rem)

\* `if len == remaining.len() { break; }`
LoopExit(len, rem) == len = Len(rem)

\* no run of the loop needs more iterations than this: every iteration but the
\* last removes an id from a worklist of at most MaxDecls ids
MaxPasses == MaxDecls + 1

(***************************************************************************)
(* The run of main(): new, generate_primitive_enums,                       *)
(* generate_primitive_structs                                              *)
(***************************************************************************)
RelevantIds == {<<i>> : i \in {k \in 1..Len(krate) : item_relevant(krate[k])}}

\* Before BindgenContext::new returns there is no context.
NoContext ==
    /\ known_types = <<>>
    /\ remaining_items = <<>>
    /\ remaining = <<>>
    /\ result = <<>>
    /\ total_items = 0
    /\ classified = <<>>
    /\ passes = 0

IdleClassifier ==
    /\ krate = <<>>
    /\ NoContext
    /\ pc = "idle"
    /\ run = 0
    /\ prev = None

IdleRender == item = None /\ cs_out = None /\ rs_out = None
IdleIndent == blocks = None /\ indented = None

\* BindgenContext::new.  krate.index is a HashMap: values() yields the items in
\* an order the input does not fix, so the worklist is any ordering of the
\* relevant ids.
New ==
    /\ pc = "start"
    /\ \E order \in Orderings(RelevantIds) :
           /\ remaining_items' = order
           /\ total_items' = Len(order)
    /\ known_types' = default_known_types
    /\ result' = <<>>
    /\ pc' = "generate"
    /\ UNCHANGED <<krate, remaining, classified, passes, run, prev>>
    /\ UNCHANGED <<renderVars, indentVars>>

\* generate_primitive_enums: one retain pass over the worklist.  A panic in
\* generate_primitive_enum ends the run before self.remaining_items is assigned.
GeneratePrimitiveEnums ==
    /\ pc = "generate"
    /\ \E r \in {RetainEnums(remaining_items, known_types, result, classified)} :
           /\ known_types' = r.known_types
           /\ result' = r.result
           /\ classified' = r.classified
           /\ IF r.panicked
              THEN pc' = "aborted" /\ UNCHANGED remaining_items
              ELSE pc' = "structs" /\ remaining_items' = r.remaining
    /\ UNCHANGED <<krate, remaining, total_items, passes, run, prev>>
    /\ UNCHANGED <<renderVars, indentVars>>

\* generate_primitive_structs, up to the loop: `remaining` is a clone of the worklist
EnterStructs ==
    /\ pc = "structs"
    /\ remaining' = remaining_items
    /\ pc' = "loop"
    /\ UNCHANGED <<krate, known_types, remaining_items, result, total_items,
                   classified, passes, run, prev>>
    /\ UNCHANGED <<renderVars, indentVars>>

\* one iteration of the loop of generate_primitive_structs; on break the local
\* worklist is stored and generate returns
StructPass ==
    /\ pc = "loop"
    /\ passes < MaxPasses
    /\ \E len \in {Len(remaining)}, r \in {RetainStructs(remaining, known_types, classified)} :
           /\ known_types' = r.known_types
           /\ classified' = r.classified
           /\ remaining' = r.remaining
           /\ IF LoopExit(len, r.remaining)
              THEN pc' = "done" /\ remaining_items' = r.remaining
              ELSE pc' = "loop" /\ UNCHANGED remaining_items
    /\ passes' = passes + 1
    /\ UNCHANGED <<krate, result, total_items, run, prev>>
    /\ UNCHANGED <<renderVars, indentVars>>

\* main() is started again on the same embedded input
Rerun ==
    /\ pc \in {"done", "aborted"}
    /\ run < MaxRuns
    /\ prev' = Some([pc |-> pc, classified |-> classified, result |-> result,
                     known_types |-> known_types, remaining_items |-> remaining_items])
    /\ run' = run + 1
    /\ pc' = "start"
    /\ known_types' = <<>>
    /\ remaining_items' = <<>>
    /\ remaining' = <<>>
    /\ result' = <<>>
    /\ total_items' = 0
    /\ classified' = <<>>
    /\ passes' = 0
    /\ UNCHANGED krate
    /\ UNCHANGED <<renderVars, indentVars>>

Init ==
    /\ krate \in Crates
    /\ NoContext
    /\ pc = "start"
    /\ run = 1
    /\ prev = None
    /\ IdleRender
    /\ IdleIndent

Next ==
    \/ New
    \/ GeneratePrimitiveEnums
    \/ EnterStructs
    \/ StructPass
    \/ Rerun

Spec == Init /\ [][Next]_vars

\* One run of main().  It is single-threaded and waits for nothing: once in the
\* loop of generate_primitive_structs it runs the next iteration.
RunNext ==
    \/ New
    \/ GeneratePrimitiveEnums
    \/ EnterStructs
    \/ StructPass

FairSpec == Init /\ [][RunNext]_vars /\ WF_vars(StructPass)

(***************************************************************************)
(* Properties of the classifier                                            *)
(***************************************************************************)
ContextExists == pc \in {"generate", "structs", "loop", "done", "aborted"}
EnumPassReturned == pc \in {"structs", "loop", "done"}

StructIds == {id \in RelevantIds : ItemAt(id).kind = "Struct"}
EnumIds == {id \in RelevantIds : ItemAt(id).kind = "Enum"}
PlainUnstrippedIds == {id \in StructIds : ItemAt(id).skind = "Plain" /\ ~ItemAt(id).stripped}

IsClassified(id) == id \in Range(classified)

\* every field's type has a Copy entry in the registry kt
FieldTypesResolve(kt, id) ==
    \A j \in 1..Len(ItemAt(id).fields) :
        LET ty == ItemAt(id).fields[j].ty
        IN  ty \in DOMAIN kt /\ kt[ty].kind = "Copy"

\* struct i has a field whose type is struct j
DependsOn(i, j) ==
    /\ krate[i].kind = "Struct" /\ krate[j].kind = "Struct"
    /\ \E f \in 1..Len(krate[i].fields) : krate[i].fields[f].ty = rust_name(<<j>>)

RECURSIVE ReachesIn(_, _, _)
ReachesIn(i, j, n) ==
    IF n = 0 THEN FALSE
    ELSE DependsOn(i, j) \/ \E k \in 1..Len(krate) : DependsOn(i, k) /\ ReachesIn(k, j, n - 1)

AcyclicStructs == \A i \in 1..Len(krate) : ~ReachesIn(i, i, Len(krate))

\* C1: when generate returns, a pending Plain struct without hidden fields is
\* registered as transferable if and only if every one of its fields' types
\* has a transferable entry in the Known-Type Registry (so Point{x: f32, y: f32}
\* is registered).
C1_TransferableIffFieldTypesResolve ==
    pc = "done" =>
        \A id \in PlainUnstrippedIds :
            IsClassified(id) <=> FieldTypesResolve(known_types, id)

\* C2: within a run the registry is append-only: every key of a state is a key
\* of the next state with the same value, and an insert never targets a name
\* that already has an entry (pre-seeded or inserted before).
C2_RegistryAppendOnly ==
    [][pc' # "start" =>
         /\ \A k \in DOMAIN known_types :
                k \in DOMAIN known_types' /\ known_types'[k] = known_types[k]
         /\ \A n \in 1..Len(classified') :
                /\ rust_name(classified'[n]) \notin DOMAIN default_known_types
                /\ \A m \in 1..(n - 1) :
                       rust_name(classified'[m]) # rust_name(classified'[n])]_vars

\* C3: two runs of main() on the same input that both return from generate
\* have produced the same text (as they must if they classify the same
\* declarations in the same order).
C3_RunsAgree ==
    (prev # None /\ pc = "done" /\ prev[1].pc = "done") => result = prev[1].result

\* C4: a struct with has_stripped_fields is never registered and never leaves
\* the worklist, neither the stored one nor the local one of the struct loop;
\* its name gets no registry entry unless another declaration or a pre-seeded
\* type has that name.
C4_StrippedNeverClassified ==
    \A id \in StructIds :
        ItemAt(id).stripped =>
            /\ ~IsClassified(id)
            /\ ContextExists => id \in Range(remaining_items)
            /\ pc \in {"loop", "done"} => id \in Range(remaining)
            /\ (/\ rust_name(id) \notin DOMAIN default_known_types
                /\ \A other \in RelevantIds \ {id} : rust_name(other) # rust_name(id))
               => rust_name(id) \notin DOMAIN known_types

C4_Witness ==
    /\ pc = "done"
    /\ passes >= 2
    /\ classified # <<>>
    /\ \E id \in StructIds : ItemAt(id).stripped /\ ItemAt(id).fields = <<>>

\* C5: no registry entry is ever created for a declaration without a name, and
\* none under the substitute name "".
C5_UnnamedNeverRegistered ==
    /\ \A id \in Range(classified) : ItemAt(id).name # None
    /\ "" \notin DOMAIN known_types

\* C6: with an acyclic field-type dependency graph among the structs, the loop
\* of generate_primitive_structs, once entered, exits.
C6_StructLoopTerminates == (pc = "loop" /\ AcyclicStructs) ~> (pc = "done")

C6_Witness ==
    /\ pc = "done"
    /\ AcyclicStructs
    /\ passes = 3
    /\ Len(classified) = 2

\* every variant of the enum is VariantKind::Plain
AllVariantsPlain(id) ==
    \A j \in 1..Len(ItemAt(id).variants) : ItemAt(id).variants[j].vkind = "Plain"

\* C9: once the enum pass has returned, an enum is registered (under its name,
\* as Copy, with its declared name as display name) and gone from the worklist
\* if and only if all its variants are plain; an enum with a data-carrying
\* variant is never registered nor removed, and a run only aborts on an
\* all-plain enum.
C9_EnumPass ==
    /\ EnumPassReturned =>
           \A id \in EnumIds :
               /\ AllVariantsPlain(id) <=> IsClassified(id)
               /\ AllVariantsPlain(id) <=> id \notin Range(remaining_items)
               /\ AllVariantsPlain(id) =>
                      /\ rust_name(id) \in DOMAIN known_types
                      /\ known_types[rust_name(id)] = KnownType(ItemAt(id).name[1], "Copy")
    /\ ContextExists =>
           \A id \in EnumIds :
               ~AllVariantsPlain(id) => ~IsClassified(id) /\ id \in Range(remaining_items)
    /\ pc = "aborted" =>
           /\ remaining_items # <<>>
           /\ \E id \in EnumIds : AllVariantsPlain(id) /\ ~IsClassified(id)
           /\ \A id \in EnumIds : ~AllVariantsPlain(id) => krate # <<ItemAt(id)>>

C9_Witness ==
    /\ pc = "structs"
    /\ \E id \in EnumIds : AllVariantsPlain(id) /\ IsClassified(id)
    /\ \E id \in EnumIds : ~AllVariantsPlain(id) /\ id \in Range(remaining_items)

PrimitiveTypes ==
    {"Bool", "U8", "U16", "U32", "U64", "I8", "I16", "I32", "I64", "F32", "F64", "String"}

\* PrimitiveType::write_cs
PrimitiveType_write_cs(p) ==
    CASE p = "Bool" -> "bool"
      [] p = "U8" -> "byte"
      [] p = "U16" -> "ushort"
      [] p = "U32" -> "uint"
      [] p = "U64" -> "ulong"
      [] p = "I8" -> "sbyte"
      [] p = "I16" -> "short"
      [] p = "I32" -> "int"
      [] p = "I64" -> "long"
      [] p = "F32" -> "float"
      [] p = "F64" -> "double"
      [] p = "String" -> "string"

\* PrimitiveType::write_rs
PrimitiveType_write_rs(p) ==
    CASE p = "Bool" -> "bool"
      [] p = "U8" -> "u8"
      [] p = "U16" -> "u16"
      [] p = "U32" -> "u32"
      [] p = "U64" -> "u64"
      [] p = "I8" -> "i8"
      [] p = "I16" -> "i16"
      [] p = "I32" -> "i32"
      [] p = "I64" -> "i64"
      [] p = "F32" -> "f32"
      [] p = "F64" -> "f64"
      [] p = "String" -> "VxString"

\* TypeReference::Primitive and its two renderings
Primitive(p) == [variant |-> "Primitive", primitive |-> p]
TypeReference_write_cs(ty) == <<PrimitiveType_write_cs(ty.primitive)>>
TypeReference_write_rs(ty) == <<PrimitiveType_write_rs(ty.primitive)>>

StructField(name, ty, docs) == [name |-> name, ty |-> ty, docs |-> docs]
StructItem(name, fields, has_default, docs) ==
    [name |-> name, fields |-> fields, has_default |-> has_default, docs |-> docs]

\* Case conversion (convert_case's to_case) on names of ASCII letters and
\* the delimiters "_", "-", " ": a name is cut at every delimiter, between a
\* lowercase letter and an uppercase one, and before the last capital of a
\* run of capitals that a lowercase letter follows.
LowerLetters == <<"a", "b", "c", "d", "e", "f", "g", "h", "i", "j", "k", "l", "m",
                  "n", "o", "p", "q", "r", "s", "t", "u", "v", "w", "x", "y", "z">>
UpperLetters == <<"A", "B", "C", "D", "E", "F", "G", "H", "I", "J", "K", "L", "M",
                  "N", "O", "P", "Q", "R", "S", "T", "U", "V", "W", "X", "Y", "Z">>
IsLower(c) == \E i \in 1..26 : LowerLetters[i] = c
IsUpper(c) == \E i \in 1..26 : UpperLetters[i] = c
ToUpper(c) == IF IsLower(c) THEN UpperLetters[CHOOSE i \in 1..26 : LowerLetters[i] = c] ELSE c
ToLower(c) == IF IsUpper(c) THEN LowerLetters[CHOOSE i \in 1..26 : UpperLetters[i] = c] ELSE c
IsDelimiter(c) == c \in {"_", "-", " "}

RECURSIVE SplitWords(_, _)
SplitWords(s, cur) ==
    IF s = <<>> THEN (IF cur = <<>> THEN <<>> ELSE <<cur>>)
    ELSE LET c == Head(s)
         IN  IF IsDelimiter(c)
             THEN (IF cur = <<>> THEN <<>> ELSE <<cur>>) \o SplitWords(Tail(s), <<>>)
             ELSE IF /\ cur # <<>>
                     /\ IsUpper(c)
                     /\ \/ IsLower(cur[Len(cur)])
                        \/ IsUpper(cur[Len(cur)]) /\ Len(s) >= 2 /\ IsLower(s[2])
                  THEN <<cur>> \o SplitWords(Tail(s), <<c>>)
                  ELSE SplitWords(Tail(s), Append(cur, c))

Capitalize(w) == [i \in 1..Len(w) |-> IF i = 1 THEN ToUpper(w[i]) ELSE ToLower(w[i])]
Lowercase(w) == [i \in 1..Len(w) |-> ToLower(w[i])]

RECURSIVE JoinWords(_, _)
JoinWords(ws, sep) ==
    IF ws = <<>> THEN <<>>
    ELSE IF Len(ws) = 1 THEN ws[1]
    ELSE ws[1] \o sep \o JoinWords(Tail(ws), sep)

\* to_case(Case::Pascal)
PascalCase(name) ==
    LET ws == SplitWords(name, <<>>)
    IN  JoinWords([i \in 1..Len(ws) |-> Capitalize(ws[i])], <<>>)

\* to_case(Case::Snake)
SnakeCase(name) ==
    LET ws == SplitWords(name, <<>>)
    IN  JoinWords([i \in 1..Len(ws) |-> Lowercase(ws[i])], <<"_">>)

Item_cs_name(it) == it.name
Item_rs_name(it) == <<"Vx">> \o it.name
Item_rs_fn_name(it) == SnakeCase(it.name)

\* the host field name left as declared
StructField_cs_name_unchanged(field) == field.name

StructField_cs_name(field) == PascalCase(field.name)
StructField_rs_name(field) == field.name

\* indent without trim_end
indent_untrimmed(value) ==
    IF value = <<>> THEN <<>>
    ELSE Repeat(" ", 4) \o ReplaceNewline(value, <<"\n">> \o Repeat(" ", 4)) \o <<"\n">>

\* indent: four spaces before every line of the trimmed text
indent(value) ==
    IF value = <<>> THEN <<>>
    ELSE Repeat(" ", 4)
             \o ReplaceNewline(TrimEnd(value), <<"\n">> \o Repeat(" ", 4))
             \o <<"\n">>

write_cs_docs(docs) ==
    IF docs # <<>>
    THEN <<"///", " ", "<summary>", "\n">>
             \o <<"///", " ">> \o ReplaceNewline(TrimEnd(docs), <<"\n", "///", " ">>) \o <<"\n">>
             \o <<"///", " ", "</summary>", "\n">>
    ELSE <<>>

write_rs_docs(docs) ==
    IF docs # <<>>
    THEN <<"///", " ">> \o ReplaceNewline(TrimEnd(docs), <<"\n", "///", " ">>) \o <<"\n">>
    ELSE <<>>

\* the text "Returns the \"default value\" for a type."
DefaultDocs ==
    <<"Returns", " ", "the", " ", "\"default", " ", "value\"", " ", "for", " ", "a", " ", "type.">>

StructField_write_cs(field) ==
    write_cs_docs(field.docs)
        \o <<"public", " ">> \o TypeReference_write_cs(field.ty) \o <<" ">>
        \o StructField_cs_name(field) \o <<";", "\n">>

StructField_write_rs(field) ==
    write_rs_docs(field.docs)
        \o <<"pub", " ">> \o StructField_rs_name(field) \o <<":", " ">>
        \o TypeReference_write_rs(field.ty) \o <<",">>

write_cs_struct_default(it) ==
    write_cs_docs(DefaultDocs)
        \o <<"public", " ", "static", " ", "readonly", " ">> \o Item_cs_name(it)
        \o <<" ", "Default", " ", "=", " ", "(">> \o Item_cs_name(it) \o <<")", "Vx", ".">>
        \o Item_rs_fn_name(it) \o <<"_default", "(", ")", ";", "\n">>

write_rs_struct_default(it) ==
    write_rs_docs(DefaultDocs)
        \o <<"#[no_mangle]", "\n">>
        \o <<"pub", " ", "fn", " ", "vx_">> \o Item_rs_fn_name(it)
        \o <<"_default", "(", ")", " ", "->", " ">> \o Item_rs_name(it) \o <<" ", "{", "\n">>
        \o Repeat(" ", 4) \o <<"let", " ", "value", " ", "=", " ">> \o it.name
        \o <<"::", "default", "(", ")", ";", "\n">>
        \o Repeat(" ", 4) \o Item_rs_name(it) \o <<" ", "{", "\n">>
        \o Concat([i \in 1..Len(it.fields) |->
                     Repeat(" ", 8) \o StructField_rs_name(it.fields[i])
                         \o <<":", " ", "value", ".">> \o it.fields[i].name
                         \o <<".", "into", "(", ")", ",", "\n">>])
        \o Repeat(" ", 4) \o <<"}", "\n">>
        \o <<"}", "\n">>

\* Item::write_cs, the Struct arm
Item_write_cs(it) ==
    LET members == Concat([i \in 1..Len(it.fields) |->
                              StructField_write_cs(it.fields[i]) \o <<"\n">>])
    IN  write_cs_docs(it.docs)
            \o <<"public", " ", "unsafe", " ", "struct", " ">> \o Item_cs_name(it)
            \o <<" ", "{", "\n">>
            \o (IF it.has_default
                THEN indent(write_cs_struct_default(it)) \o <<"\n">>
                ELSE <<>>)
            \o indent(members)
            \o <<"}", "\n">>

\* Item::write_rs, the Struct arm
Item_write_rs(it) ==
    LET members == Concat([i \in 1..Len(it.fields) |->
                              StructField_write_rs(it.fields[i]) \o <<"\n">>])
    IN  write_rs_docs(it.docs)
            \o <<"#[derive(Copy,", " ", "Clone)]]", "\n">>
            \o <<"#[repr(C)]", "\n">>
            \o <<"pub", " ", "struct", " ">> \o Item_rs_name(it) \o <<" ", "{", "\n">>
            \o indent(members)
            \o <<"}", "\n", "\n">>
            \o (IF it.has_default
                THEN write_rs_struct_default(it) \o <<"\n">>
                ELSE <<>>)

(***************************************************************************)
(* Rendering a Struct item to both targets                                 *)
(***************************************************************************)
NameX == <<"x">>
NameY == <<"y">>
NameRadiusPx == <<"r", "a", "d", "i", "u", "s", "_", "p", "x">>
NamePoint == <<"P", "o", "i", "n", "t">>
NameMyType == <<"M", "y", "T", "y", "p", "e">>

\* The fields a rendered item is built from.
FieldPool ==
    {StructField(n, Primitive(p), <<>>) : n \in {NameX, NameY, NameRadiusPx}, p \in {"F32", "String"}}
    \cup {StructField(NameX, Primitive("U8"), <<"width", "\n", "in", " ", "px", "\n">>),
          StructField(NameRadiusPx, Primitive("F64"), <<"public", " ", "float", " ", "X", ";">>)}

StructItems ==
    {StructItem(n, fs, d, docs) :
        n \in {NamePoint, NameMyType},
        fs \in SeqsUpTo(FieldPool, MaxFields),
        d \in BOOLEAN,
        docs \in {<<>>, <<"A", " ", "point.">>}}

\* DisplayCs(item): the host rendering
WriteCs ==
    /\ item # None
    /\ cs_out = None
    /\ cs_out' = Some(Item_write_cs(item[1]))
    /\ UNCHANGED <<item, rs_out>>
    /\ UNCHANGED <<classifierVars, indentVars>>

\* DisplayRs(item): the native rendering
WriteRs ==
    /\ item # None
    /\ rs_out = None
    /\ rs_out' = Some(Item_write_rs(item[1]))
    /\ UNCHANGED <<item, cs_out>>
    /\ UNCHANGED <<classifierVars, indentVars>>

RenderInit ==
    /\ item \in {Some(it) : it \in StructItems}
    /\ cs_out = None
    /\ rs_out = None
    /\ IdleClassifier
    /\ IdleIndent

RenderNext == WriteCs \/ WriteRs

RenderSpec == RenderInit /\ [][RenderNext]_vars

\* the field declarations a rendering shows: the lines of the struct body that
\* declare a member of a primitive type
HostSpellings == {PrimitiveType_write_cs(p) : p \in PrimitiveTypes}
NativeSpellings == {PrimitiveType_write_rs(p) : p \in PrimitiveTypes}

IsHostFieldLine(l) ==
    /\ Len(l) >= 10
    /\ SubSeq(l, 1, 6) = <<" ", " ", " ", " ", "public", " ">>
    /\ l[7] \in HostSpellings
    /\ l[8] = " "
    /\ l[Len(l)] = ";"

IsNativeFieldLine(l) ==
    /\ Len(l) >= 11
    /\ SubSeq(l, 1, 6) = <<" ", " ", " ", " ", "pub", " ">>
    /\ l[Len(l) - 3] = ":"
    /\ l[Len(l) - 2] = " "
    /\ l[Len(l) - 1] \in NativeSpellings
    /\ l[Len(l)] = ","

HostFieldLines(text) == SelectSeq(Lines(text), IsHostFieldLine)
NativeFieldLines(text) == SelectSeq(Lines(text), IsNativeFieldLine)

HostFieldLine(field) ==
    <<" ", " ", " ", " ", "public", " ", PrimitiveType_write_cs(field.ty.primitive), " ">>
        \o PascalCase(field.name) \o <<";">>
NativeFieldLine(field) ==
    <<" ", " ", " ", " ", "pub", " ">> \o field.name
        \o <<":", " ", PrimitiveType_write_rs(field.ty.primitive), ",">>

\* C7: the host rendering declares exactly the item's fields, once each and in
\* the declared order, each under its Pascal-cased name with the host spelling
\* of its type; the native rendering does the same under the unchanged names
\* with the native spellings.
C7_FieldsRenderedInOrder ==
    /\ cs_out # None =>
           LET shown == HostFieldLines(cs_out[1])
           IN  /\ Len(shown) = Len(item[1].fields)
               /\ \A i \in 1..Len(shown) : shown[i] = HostFieldLine(item[1].fields[i])
    /\ rs_out # None =>
           LET shown == NativeFieldLines(rs_out[1])
           IN  /\ Len(shown) = Len(item[1].fields)
               /\ \A i \in 1..Len(shown) : shown[i] = NativeFieldLine(item[1].fields[i])

C7_Witness ==
    /\ item # None /\ cs_out # None /\ rs_out # None
    /\ item[1].name = NamePoint
    /\ item[1].fields = <<StructField(NameX, Primitive("F32"), <<>>),
                          StructField(NameY, Primitive("F32"), <<>>)>>
    /\ HostFieldLines(cs_out[1]) =
           << <<" ", " ", " ", " ", "public", " ", "float", " ", "X", ";">>,
              <<" ", " ", " ", " ", "public", " ", "float", " ", "Y", ";">> >>
    /\ NativeFieldLines(rs_out[1]) =
           << <<" ", " ", " ", " ", "pub", " ", "x", ":", " ", "f32", ",">>,
              <<" ", " ", " ", " ", "pub", " ", "y", ":", " ", "f32", ",">> >>

(***************************************************************************)
(* Applying indent to two blocks and to their concatenation                *)
(***************************************************************************)
BlockChars == {"a", "b", " ", "\n"}
Blocks == SeqsUpTo(BlockChars, MaxBlockLen)

Indent ==
    /\ blocks # None
    /\ indented = None
    /\ indented' = Some([first |-> indent(blocks[1][1]),
                         second |-> indent(blocks[1][2]),
                         both |-> indent(blocks[1][1] \o blocks[1][2])])
    /\ UNCHANGED blocks
    /\ UNCHANGED <<classifierVars, renderVars>>

IndentInit ==
    /\ blocks \in {Some(<<s, t>>) : s \in Blocks, t \in Blocks}
    /\ indented = None
    /\ IdleClassifier
    /\ IdleRender

IndentNext == Indent

IndentSpec == IndentInit /\ [][IndentNext]_vars

NoTrailingWhitespace(s) == s = <<>> \/ ~IsWhitespace(s[Len(s)])

\* a block whose last line has text and is closed by one "\n"
ClosedBlock(s) == Len(s) >= 2 /\ s[Len(s)] = "\n" /\ ~IsWhitespace(s[Len(s) - 1])

IndentExamples ==
    /\ blocks[1][1] = <<>> => indented[1].first = <<>>
    /\ blocks[1][1] = <<"a", "\n", "b">> =>
           indented[1].first =
               <<" ", " ", " ", " ", "a", "\n", " ", " ", " ", " ", "b", "\n">>

\* C8 as stated: indent of "" is "", indent of "a\nb" is "    a\n    b\n", and
\* for blocks s and t without trailing whitespace indent(s t) = indent(s) indent(t).
C8_DistributesOverTrimmed ==
    indented # None =>
        /\ IndentExamples
        /\ (NoTrailingWhitespace(blocks[1][1]) /\ NoTrailingWhitespace(blocks[1][2])) =>
               indented[1].both = indented[1].first \o indented[1].second

\* C8, amended: indent of "" is "", indent of "a\nb" is "    a\n    b\n", and for
\* blocks s and t that each end in one "\n" right after a non-whitespace
\* character indent(s t) = indent(s) indent(t).
C8_DistributesOverClosed ==
    indented # None =>
        /\ IndentExamples
        /\ (ClosedBlock(blocks[1][1]) /\ ClosedBlock(blocks[1][2])) =>
               indented[1].both = indented[1].first \o indented[1].second

C8_Witness ==
    /\ blocks = Some(<< <<"a", "\n">>, <<" ", "b", "\n">> >>)
    /\ indented # None
    /\ indented[1].both =
           <<" ", " ", " ", " ", "a", "\n", " ", " ", " ", " ", " ", "b", "\n">>
    /\ indented[1].both = indented[1].first \o indented[1].second

====
